---- MODULE Spec2Model ----
(***************************************************************************)
(* State-machine model of the HR policy assistant front end (App.tsx, the *)
(* upload and chat views and the gateway service functions).  The state   *)
(* is the React state of the App component, the browser's localStorage    *)
(* entry 'uploadedPolicies', the calls and timers in flight, and the      *)
(* document list held by the remote gateway.                               *)
(***************************************************************************)
EXTENDS Integers, Sequences, FiniteSets, Bags, TLC

VARIABLES
    mounted,           \* the mount effects of App have run
    activeTab,         \* App state activeTab
    uploadedPolicies,  \* App state uploadedPolicies (the visible collection)
    localStorage,      \* localStorage item 'uploadedPolicies' (the mirror)
    chatHistory,       \* App state chatHistory
    isLoading,         \* App state isLoading (the pending flag)
    sessionId,         \* App state sessionId
    useWebhook,        \* App state useWebhook (the route)
    now,               \* the reading of Date.now()
    consoleError,      \* the last console.error line of handleSendMessage
    policyFetches,     \* GET /policies calls in flight (bag)
    refreshTimers,     \* setTimeout callbacks of handleUpload not yet run (bag)
    deleteCalls,       \* DELETE /policies/{name} calls in flight (bag)
    clearCalls,        \* DELETE /policies/clear-all calls in flight (count)
    uploadCalls,       \* POST /upload-policy calls in flight (bag)
    chatCalls,         \* POST /chat and /webhook/chat calls in flight (bag)
    serverPolicies,    \* the document list held by the gateway
    uploadTab,         \* UploadTab state: file, policyType, isUploading, error
    deletedNames       \* history: names deleted locally and not uploaded since

vars == <<mounted, activeTab, uploadedPolicies, localStorage, chatHistory,
          isLoading, sessionId, useWebhook, now, consoleError, policyFetches,
          refreshTimers, deleteCalls, clearCalls, uploadCalls, chatCalls,
          serverPolicies, deletedNames, uploadTab>>

registryVars == <<uploadedPolicies, localStorage>>
sessionVars == <<chatHistory, isLoading, sessionId, useWebhook>>
docCallVars == <<policyFetches, refreshTimers, deleteCalls, clearCalls, uploadCalls>>

-----------------------------------------------------------------------------
(* Bounds of the model *)

MaxPolicies == 3     \* longest visible collection
MaxFetches == 1      \* uploads, timers and list calls under way at once
MaxDeletes == 1      \* delete calls in flight at once
MaxHistory == 5      \* longest message sequence
MaxChatCalls == 2    \* chat calls in flight at once
MaxAppHistory == 3   \* longest message sequence when documents are handled too
MaxListCalls == 2    \* list calls in flight at once when nothing is uploaded
MaxClock == 1        \* last reading of the clock

-----------------------------------------------------------------------------
(* Documents, dates and their JSON forms *)

Names == {"a.pdf", "b.pdf"}

\* The time value of an invalid Date (NaN).
InvalidDate == -1

\* Date.prototype.toJSON: the ISO string of a valid date, null of an invalid one.
DateToJSON(d) ==
    IF d = InvalidDate THEN [j |-> "null"] ELSE [j |-> "iso", t |-> d]

\* new Date(x) of a JSON value: an ISO string gives its time, null gives the
\* epoch, any other string or undefined gives an invalid Date.
NewDate(x) ==
    CASE x.j = "iso" -> x.t
      [] x.j = "null" -> 0
      [] OTHER -> InvalidDate

\* The record the gateway lists for a document (GET /policies).
ServerRecord(n) ==
    [name |-> n, type |-> "HR", pages |-> 3,
     uploaded_at |-> [j |-> "iso", t |-> 1], size |-> 1]

\* The record UploadTab builds after an accepted upload: estimated page
\* count, the client's clock as upload time.
NewDoc(n, t) ==
    [name |-> n, type |-> "HR", pages |-> 10, uploadedAt |-> t, size |-> 1]

\* response.policies.map(policy => ({..., uploadedAt: new Date(policy.uploaded_at)}))
MapPolicies(list) ==
    [i \in 1..Len(list) |->
        [name |-> list[i].name, type |-> list[i].type, pages |-> list[i].pages,
         uploadedAt |-> NewDate(list[i].uploaded_at), size |-> list[i].size]]

\* JSON.stringify(uploadedPolicies): every Date becomes its toJSON form.
StringifyPolicies(ps) ==
    [kind |-> "array",
     items |-> [i \in 1..Len(ps) |->
                  [ps[i] EXCEPT !.uploadedAt = DateToJSON(ps[i].uploadedAt)]]]

\* JSON.parse(savedPolicies).map(policy => ({...policy, uploadedAt: new Date(policy.uploadedAt)}))
ParseSavedPolicies(item) ==
    [i \in 1..Len(item.items) |->
        [item.items[i] EXCEPT !.uploadedAt = NewDate(item.items[i].uploadedAt)]]

\* localStorage.getItem of a key that is not set.
NoItem == [kind |-> "null"]

\* An item whose text is not JSON.
GarbageItem == [kind |-> "garbage"]

\* The list a previous run left in localStorage: two documents.
CachedItem ==
    StringifyPolicies(<<MapPolicies(<<ServerRecord("a.pdf")>>)[1], NewDoc("b.pdf", 0)>>)

PolicyNames(ps) == {ps[i].name : i \in 1..Len(ps)}

HasName(ps, n) == n \in PolicyNames(ps)

CountName(ps, n) == Cardinality({i \in 1..Len(ps) : ps[i].name = n})

\* prev.filter(policy => policy.name !== policyNameToDelete)
FilterOutName(ps, n) == SelectSeq(ps, LAMBDA p : p.name # n)

-----------------------------------------------------------------------------
(* Bags of calls in flight *)

BagAdd(b, e) == b (+) SetToBag({e})

BagRemove(b, e) == b (-) SetToBag({e})

InFlight(b) == BagToSet(b)

-----------------------------------------------------------------------------
(* The gateway's document store (its contract: documents are keyed by name) *)

ServerWithout(list, n) == SelectSeq(list, LAMBDA p : p.name # n)

\* POST /upload-policy accepted: the document is stored under its name.
ServerAccept(list, n) == ServerWithout(list, n) \o <<ServerRecord(n)>>

\* A list call that the gateway has not answered yet.
Pending == [st |-> "pending"]

\* The answer of GET /policies: {policies: [...]}.
ListAnswer(list) == [st |-> "ok", policies |-> list]

\* A GET /policies call: who issued it (loadPolicies or refreshPolicies), the
\* uploaded document whose timer started it ("" when none), and the answer.
Fetch(kind, n, resp) == [kind |-> kind, policy |-> n, resp |-> resp]

\* What is under way towards a new list: uploads whose record and timer
\* are still to come, timers, and list calls.
UnderWay ==
    BagCardinality(uploadCalls) + BagCardinality(refreshTimers)
        + BagCardinality(policyFetches)

-----------------------------------------------------------------------------
(* Session identifiers *)

\* useState<string>(''): no session yet.
NoSession == [t |-> InvalidDate, r |-> ""]

\* Math.random().toString(36).substring(2, 9)
Rand == {"k3x9q2a", "zz1m4pq"}

\* `session_${Date.now()}_${Math.random().toString(36).substring(2, 9)}`
NewSessionId(t, r) == [t |-> t, r |-> r]

Greeting ==
    [role |-> "assistant",
     content |-> [ty |-> "string",
                  s |-> "Hello! I'm your Company Policy Assistant. How can I help you today?"]]

-----------------------------------------------------------------------------
(* The upload view's own state *)

\* No file selected: useState<File | null>(null).
NoFile == [name |-> "", type |-> ""]

PdfFile(n) == [name |-> n, type |-> "application/pdf"]

\* The files the user can pick: the PDF documents and a text file.
Files == {PdfFile(n) : n \in Names} \cup {[name |-> "notes.txt", type |-> "text/plain"]}

\* What the user types as policy type: blanks only, or a category.
PolicyTypes == {" ", "HR "}

RECURSIVE Trim(_)
\* String.prototype.trim
Trim(str) ==
    IF Len(str) > 0 /\ SubSeq(str, 1, 1) = " " THEN Trim(SubSeq(str, 2, Len(str)))
    ELSE IF Len(str) > 0 /\ SubSeq(str, Len(str), Len(str)) = " "
      THEN Trim(SubSeq(str, 1, Len(str) - 1))
      ELSE str

\* The state of a newly mounted UploadTab: no file, no policy type, not
\* uploading (uploading is the name of the file an upload of this view is
\* awaited for, "" when isUploading is false), no error.
FreshUploadTab == [file |-> NoFile, policyType |-> "", uploading |-> "", error |-> ""]

\* The render after setActiveTab(tab): UploadTab is rendered only on the
\* upload tab, so its state starts afresh whenever the tab changes.
ShowTab(tab) ==
    /\ activeTab' = tab
    /\ uploadTab' = FreshUploadTab

\* The Upload button: disabled={isUploading || !file || !policyType.trim()}.
UploadButtonEnabled ==
    /\ uploadTab.uploading = ""
    /\ uploadTab.file # NoFile
    /\ Trim(uploadTab.policyType) # ""

-----------------------------------------------------------------------------
(* The Document Registry *)

\* The save effect: localStorage.setItem('uploadedPolicies', JSON.stringify(uploadedPolicies)),
\* run after every render in which uploadedPolicies is a new array.
SavedItem(ps) == StringifyPolicies(ps)

\* setUploadedPolicies(ps) without the save effect.
SetUploadedPolicies_NoSave(ps) ==
    /\ uploadedPolicies' = ps
    /\ UNCHANGED localStorage

\* setUploadedPolicies(ps), the render it causes and the save effect of that render.
SetUploadedPolicies(ps) ==
    /\ uploadedPolicies' = ps
    /\ localStorage' = SavedItem(ps)

\* Mount without the save effect's first run: the item a previous run left
\* is still there when the load falls back to it.
Mount_NoInitialSave ==
    /\ ~mounted
    /\ mounted' = TRUE
    /\ policyFetches' = BagAdd(policyFetches, Fetch("load", "", Pending))
    /\ \E r \in Rand : sessionId' = NewSessionId(now, r)
    /\ UNCHANGED <<uploadTab, deletedNames, activeTab, registryVars, chatHistory, isLoading,
                   useWebhook, now, consoleError, refreshTimers, deleteCalls, clearCalls,
                   uploadCalls, chatCalls, serverPolicies>>

\* The mount effects, in the order of their definition: loadPolicies() issues
\* the list call, a session id is generated, and the save effect writes the
\* initial (empty) collection.
Mount ==
    /\ ~mounted
    /\ mounted' = TRUE
    /\ policyFetches' = BagAdd(policyFetches, Fetch("load", "", Pending))
    /\ \E r \in Rand : sessionId' = NewSessionId(now, r)
    /\ localStorage' = SavedItem(uploadedPolicies)
    /\ UNCHANGED <<uploadTab, deletedNames, activeTab, uploadedPolicies, chatHistory, isLoading, useWebhook,
                   now, consoleError, refreshTimers, deleteCalls, clearCalls,
                   uploadCalls, chatCalls, serverPolicies>>

\* The gateway answers a list call with its current list.
GetPoliciesRespond(f) ==
    /\ f \in InFlight(policyFetches)
    /\ f.resp = Pending
    /\ policyFetches' =
          BagAdd(BagRemove(policyFetches, f), [f EXCEPT !.resp = ListAnswer(serverPolicies)])
    /\ UNCHANGED <<uploadTab, mounted, deletedNames, activeTab, registryVars, sessionVars, now, consoleError,
                   refreshTimers, deleteCalls, clearCalls, uploadCalls, chatCalls,
                   serverPolicies>>

\* loadPolicies that keeps the records it has and adds the fetched ones.
loadPoliciesResolve_KeepsLocal(f) ==
    /\ f \in InFlight(policyFetches)
    /\ f.kind = "load"
    /\ f.resp.st = "ok"
    /\ policyFetches' = BagRemove(policyFetches, f)
    /\ SetUploadedPolicies(uploadedPolicies \o MapPolicies(f.resp.policies))
    /\ UNCHANGED <<uploadTab, mounted, deletedNames, activeTab, sessionVars, now, consoleError,
                   refreshTimers, deleteCalls, clearCalls, uploadCalls, chatCalls,
                   serverPolicies>>

\* loadPolicies, after getPolicies() resolved.
loadPoliciesResolve(f) ==
    /\ f \in InFlight(policyFetches)
    /\ f.kind = "load"
    /\ f.resp.st = "ok"
    /\ policyFetches' = BagRemove(policyFetches, f)
    /\ SetUploadedPolicies(MapPolicies(f.resp.policies))
    /\ UNCHANGED <<uploadTab, mounted, deletedNames, activeTab, sessionVars, now, consoleError, refreshTimers,
                   deleteCalls, clearCalls, uploadCalls, chatCalls, serverPolicies>>

\* loadPolicies whose failure is not absorbed: the error reaches the mount
\* effect and the component tree is torn down.
loadPoliciesReject_Raises(f) ==
    /\ f \in InFlight(policyFetches)
    /\ f.kind = "load"
    /\ policyFetches' = BagRemove(policyFetches, f)
    /\ mounted' = FALSE
    /\ UNCHANGED <<uploadTab, deletedNames, activeTab, registryVars, sessionVars, now, consoleError,
                   refreshTimers, deleteCalls, clearCalls, uploadCalls, chatCalls,
                   serverPolicies>>

\* loadPolicies, after getPolicies() rejected (network failure, non-success
\* status, malformed body): the fallback to localStorage.
loadPoliciesReject(f) ==
    /\ f \in InFlight(policyFetches)
    /\ f.kind = "load"
    /\ policyFetches' = BagRemove(policyFetches, f)
    /\ IF localStorage # NoItem /\ localStorage.kind = "array"
         THEN SetUploadedPolicies(ParseSavedPolicies(localStorage))
         ELSE UNCHANGED registryVars
    /\ UNCHANGED <<uploadTab, mounted, deletedNames, activeTab, sessionVars, now, consoleError, refreshTimers,
                   deleteCalls, clearCalls, uploadCalls, chatCalls, serverPolicies>>

\* refreshPolicies, called by the Refresh button of the chat view, with at
\* most limit uploads, timers and list calls under way.
refreshPoliciesWithin(limit) ==
    /\ mounted
    /\ activeTab = "chat"
    /\ UnderWay < limit
    /\ policyFetches' = BagAdd(policyFetches, Fetch("refresh", "", Pending))
    /\ UNCHANGED <<uploadTab, mounted, deletedNames, activeTab, registryVars, sessionVars, now, consoleError,
                   refreshTimers, deleteCalls, clearCalls, uploadCalls, chatCalls,
                   serverPolicies>>

refreshPolicies == refreshPoliciesWithin(MaxFetches)

\* The timer of handleUpload expires: refreshPolicies().
RefreshTimerFires(n) ==
    /\ n \in InFlight(refreshTimers)
    /\ refreshTimers' = BagRemove(refreshTimers, n)
    /\ policyFetches' = BagAdd(policyFetches, Fetch("refresh", n, Pending))
    /\ UNCHANGED <<uploadTab, mounted, deletedNames, activeTab, registryVars, sessionVars, now, consoleError,
                   deleteCalls, clearCalls, uploadCalls, chatCalls, serverPolicies>>

\* refreshPolicies putting the fetched records in front of the ones it has,
\* instead of in their place.
refreshPoliciesResolve_Merges(f) ==
    /\ f \in InFlight(policyFetches)
    /\ f.kind = "refresh"
    /\ f.resp.st = "ok"
    /\ policyFetches' = BagRemove(policyFetches, f)
    /\ SetUploadedPolicies(MapPolicies(f.resp.policies) \o uploadedPolicies)
    /\ UNCHANGED <<uploadTab, mounted, deletedNames, activeTab, sessionVars, now, consoleError,
                   refreshTimers, deleteCalls, clearCalls, uploadCalls, chatCalls,
                   serverPolicies>>

\* refreshPolicies, after getPolicies() resolved.
refreshPoliciesResolve(f) ==
    /\ f \in InFlight(policyFetches)
    /\ f.kind = "refresh"
    /\ f.resp.st = "ok"
    /\ policyFetches' = BagRemove(policyFetches, f)
    /\ SetUploadedPolicies(MapPolicies(f.resp.policies))
    /\ UNCHANGED <<uploadTab, mounted, deletedNames, activeTab, sessionVars, now, consoleError, refreshTimers,
                   deleteCalls, clearCalls, uploadCalls, chatCalls, serverPolicies>>

\* refreshPolicies that empties the collection when the list call fails.
refreshPoliciesReject_ClearsList(f) ==
    /\ f \in InFlight(policyFetches)
    /\ f.kind = "refresh"
    /\ policyFetches' = BagRemove(policyFetches, f)
    /\ SetUploadedPolicies(<<>>)
    /\ UNCHANGED <<uploadTab, mounted, deletedNames, activeTab, sessionVars, now, consoleError,
                   refreshTimers, deleteCalls, clearCalls, uploadCalls, chatCalls,
                   serverPolicies>>

\* refreshPolicies, after getPolicies() rejected.
refreshPoliciesReject(f) ==
    /\ f \in InFlight(policyFetches)
    /\ f.kind = "refresh"
    /\ policyFetches' = BagRemove(policyFetches, f)
    /\ UNCHANGED <<uploadTab, mounted, deletedNames, activeTab, registryVars, sessionVars, now, consoleError,
                   refreshTimers, deleteCalls, clearCalls, uploadCalls, chatCalls,
                   serverPolicies>>

\* handleUpload(policy): the record goes to the front, the chat tab is shown
\* and a refresh is scheduled.
handleUpload(policy) ==
    /\ SetUploadedPolicies(<<policy>> \o uploadedPolicies)
    /\ ShowTab("chat")
    /\ refreshTimers' = BagAdd(refreshTimers, policy.name)

\* handleFileChange without the test of the file's type.
handleFileChange_AnyFile(selectedFile) ==
    /\ mounted
    /\ activeTab = "upload"
    /\ uploadTab' = [uploadTab EXCEPT !.error = "", !.file = selectedFile]
    /\ UNCHANGED <<mounted, deletedNames, activeTab, registryVars, sessionVars, now,
                   consoleError, docCallVars, chatCalls, serverPolicies>>

\* UploadTab.handleFileChange: a file that is not a PDF is refused.
handleFileChange(selectedFile) ==
    /\ mounted
    /\ activeTab = "upload"
    /\ uploadTab' =
          IF selectedFile.type # "application/pdf"
            THEN [uploadTab EXCEPT !.error = "Only PDF files are allowed.", !.file = NoFile]
            ELSE [uploadTab EXCEPT !.error = "", !.file = selectedFile]
    /\ UNCHANGED <<mounted, deletedNames, activeTab, registryVars, sessionVars, now,
                   consoleError, docCallVars, chatCalls, serverPolicies>>

\* The policy type field of the upload view: setPolicyType(e.target.value).
setPolicyType(text) ==
    /\ mounted
    /\ activeTab = "upload"
    /\ uploadTab.policyType # text
    /\ uploadTab' = [uploadTab EXCEPT !.policyType = text]
    /\ UNCHANGED <<mounted, deletedNames, activeTab, registryVars, sessionVars, now,
                   consoleError, docCallVars, chatCalls, serverPolicies>>

\* handleUploadClick that sends whatever is selected, under any policy type.
handleUploadClick_NoChecks(n) ==
    /\ mounted
    /\ activeTab = "upload"
    /\ uploadTab.file.name = n
    /\ UnderWay < MaxFetches
    /\ uploadTab' = [uploadTab EXCEPT !.uploading = n, !.error = ""]
    /\ uploadCalls' = BagAdd(uploadCalls, n)
    /\ UNCHANGED <<mounted, deletedNames, activeTab, registryVars, sessionVars, now,
                   consoleError, policyFetches, refreshTimers, deleteCalls, clearCalls,
                   chatCalls, serverPolicies>>

\* UploadTab.handleUploadClick, from the Upload button, with the file named
\* n selected: without a file or with a blank policy type an error is shown
\* (the button is disabled in both cases), else the upload call is issued.
handleUploadClick(n) ==
    /\ mounted
    /\ activeTab = "upload"
    /\ UploadButtonEnabled
    /\ uploadTab.file.name = n
    /\ UnderWay < MaxFetches
    /\ Len(uploadedPolicies) + BagCardinality(uploadCalls) < MaxPolicies
    /\ IF uploadTab.file = NoFile
         THEN /\ uploadTab' = [uploadTab EXCEPT !.error = "Please select a file to upload."]
              /\ UNCHANGED uploadCalls
         ELSE IF Trim(uploadTab.policyType) = ""
           THEN /\ uploadTab' = [uploadTab EXCEPT !.error = "Please specify a policy type."]
                /\ UNCHANGED uploadCalls
           ELSE /\ uploadTab' = [uploadTab EXCEPT !.uploading = n, !.error = ""]
                /\ uploadCalls' = BagAdd(uploadCalls, n)
    /\ UNCHANGED <<mounted, deletedNames, activeTab, registryVars, sessionVars, now, consoleError,
                   policyFetches, refreshTimers, deleteCalls, clearCalls, chatCalls,
                   serverPolicies>>

\* handleUploadClick, after uploadPolicy() resolved: the gateway has stored
\* the document; the view builds the record and calls onUpload.
handleUploadClickResolve(n) ==
    /\ n \in InFlight(uploadCalls)
    /\ uploadCalls' = BagRemove(uploadCalls, n)
    /\ serverPolicies' = ServerAccept(serverPolicies, n)
    /\ handleUpload(NewDoc(n, now))
    /\ deletedNames' = deletedNames \ {n}
    /\ UNCHANGED <<mounted, sessionVars, now, consoleError, policyFetches, deleteCalls,
                   clearCalls, chatCalls>>

\* handleUploadClick, after uploadPolicy() rejected: the view that issued
\* the call shows the error, if it is still mounted (live).
handleUploadClickReject(n) ==
    /\ n \in InFlight(uploadCalls)
    /\ uploadCalls' = BagRemove(uploadCalls, n)
    /\ \E live \in BOOLEAN :
          /\ live => uploadTab.uploading = n
          /\ ~live => (uploadTab.uploading # n \/ CopiesIn(n, uploadCalls) > 1)
          /\ uploadTab' = IF live
                            THEN [uploadTab EXCEPT !.uploading = "", !.error = "Failed to fetch"]
                            ELSE uploadTab
    /\ UNCHANGED <<mounted, deletedNames, activeTab, registryVars, sessionVars, now, consoleError,
                   policyFetches, refreshTimers, deleteCalls, clearCalls, chatCalls,
                   serverPolicies>>

\* handleDeletePolicy(n), from the delete button of a listed document: the
\* delete call is issued and awaited.
handleDeletePolicy(n) ==
    /\ mounted
    /\ activeTab = "chat"
    /\ HasName(uploadedPolicies, n)
    /\ BagCardinality(deleteCalls) < MaxDeletes
    /\ deleteCalls' = BagAdd(deleteCalls, n)
    /\ UNCHANGED <<uploadTab, mounted, deletedNames, activeTab, registryVars, sessionVars, now, consoleError,
                   policyFetches, refreshTimers, clearCalls, uploadCalls, chatCalls,
                   serverPolicies>>

\* handleDeletePolicy, after deletePolicyAPI() resolved.
handleDeletePolicyResolve(n) ==
    /\ n \in InFlight(deleteCalls)
    /\ deleteCalls' = BagRemove(deleteCalls, n)
    /\ serverPolicies' = ServerWithout(serverPolicies, n)
    /\ SetUploadedPolicies(FilterOutName(uploadedPolicies, n))
    /\ deletedNames' = deletedNames \cup {n}
    /\ UNCHANGED <<uploadTab, mounted, activeTab, sessionVars, now, consoleError, policyFetches,
                   refreshTimers, clearCalls, uploadCalls, chatCalls>>

\* handleDeletePolicy whose catch branch only logs: a rejected delete
\* leaves the record in the collection.
handleDeletePolicyReject_KeepsRecord(n) ==
    /\ n \in InFlight(deleteCalls)
    /\ deleteCalls' = BagRemove(deleteCalls, n)
    /\ UNCHANGED <<uploadTab, mounted, deletedNames, activeTab, registryVars, sessionVars, now,
                   consoleError, policyFetches, refreshTimers, clearCalls, uploadCalls,
                   chatCalls, serverPolicies>>

\* handleDeletePolicy, after deletePolicyAPI() rejected: the catch branch.
handleDeletePolicyReject(n) ==
    /\ n \in InFlight(deleteCalls)
    /\ deleteCalls' = BagRemove(deleteCalls, n)
    /\ SetUploadedPolicies(FilterOutName(uploadedPolicies, n))
    /\ deletedNames' = deletedNames \cup {n}
    /\ UNCHANGED <<uploadTab, mounted, activeTab, sessionVars, now, consoleError, policyFetches,
                   refreshTimers, clearCalls, uploadCalls, chatCalls, serverPolicies>>

\* setUploadedPolicies([]) and localStorage.removeItem('uploadedPolicies'):
\* the item is removed before the render that the state update scheduled,
\* and the save effect of that render writes it again.
ClearLocal ==
    /\ uploadedPolicies' = <<>>
    /\ localStorage' = LET removed == NoItem IN SavedItem(<<>>)

\* clearAllPolicies that empties the collection before the call is made.
clearAllPolicies_EmptiesFirst ==
    /\ mounted
    /\ activeTab = "chat"
    /\ Len(uploadedPolicies) > 0
    /\ clearCalls = 0
    /\ clearCalls' = clearCalls + 1
    /\ ClearLocal
    /\ UNCHANGED <<uploadTab, mounted, deletedNames, activeTab, sessionVars, now, consoleError,
                   policyFetches, refreshTimers, deleteCalls, uploadCalls, chatCalls,
                   serverPolicies>>

\* clearAllPolicies, from the Clear All button (shown when the list is not
\* empty): the bulk-clear call is issued and awaited.
clearAllPolicies ==
    /\ mounted
    /\ activeTab = "chat"
    /\ Len(uploadedPolicies) > 0
    /\ clearCalls = 0
    /\ clearCalls' = clearCalls + 1
    /\ UNCHANGED <<uploadTab, mounted, deletedNames, activeTab, registryVars, sessionVars, now, consoleError,
                   policyFetches, refreshTimers, deleteCalls, uploadCalls, chatCalls,
                   serverPolicies>>

\* clearAllPolicies that also cancels the refreshes scheduled by uploads.
clearAllPoliciesResolve_CancelsTimers ==
    /\ clearCalls > 0
    /\ clearCalls' = clearCalls - 1
    /\ serverPolicies' = <<>>
    /\ ClearLocal
    /\ refreshTimers' = EmptyBag
    /\ UNCHANGED <<uploadTab, mounted, deletedNames, activeTab, sessionVars, now, consoleError,
                   policyFetches, deleteCalls, uploadCalls, chatCalls>>

\* clearAllPolicies, after clearAllPoliciesAPI() resolved.
clearAllPoliciesResolve ==
    /\ clearCalls > 0
    /\ clearCalls' = clearCalls - 1
    /\ serverPolicies' = <<>>
    /\ ClearLocal
    /\ UNCHANGED <<uploadTab, mounted, deletedNames, activeTab, sessionVars, now, consoleError, policyFetches,
                   refreshTimers, deleteCalls, uploadCalls, chatCalls>>

\* clearAllPolicies, after clearAllPoliciesAPI() rejected: the catch branch.
clearAllPoliciesReject ==
    /\ clearCalls > 0
    /\ clearCalls' = clearCalls - 1
    /\ ClearLocal
    /\ UNCHANGED <<uploadTab, mounted, deletedNames, activeTab, sessionVars, now, consoleError, policyFetches,
                   refreshTimers, deleteCalls, uploadCalls, chatCalls, serverPolicies>>

\* The two navigation buttons.
setActiveTab(tab) ==
    /\ mounted
    /\ activeTab # tab
    /\ ShowTab(tab)
    /\ UNCHANGED <<mounted, deletedNames, registryVars, sessionVars, now, consoleError, docCallVars,
                   chatCalls, serverPolicies>>

-----------------------------------------------------------------------------
(* JavaScript values of a chat payload *)

Undefined == [ty |-> "undefined"]

Null == [ty |-> "null"]

Str(x) == [ty |-> "string", s |-> x]

Num(x) == [ty |-> "number", n |-> x]

Bool(x) == [ty |-> "boolean", b |-> x]

\* An object with the members text, output, answer (Undefined: no such member).
Obj(t, o, a) == [ty |-> "object", text |-> t, output |-> o, answer |-> a]

\* An object with the one member response (the body of a chat reply).
Body(r) == [ty |-> "object", response |-> r]

\* ToBoolean
Truthy(x) ==
    CASE x.ty = "undefined" -> FALSE
      [] x.ty = "null" -> FALSE
      [] x.ty = "string" -> x.s # ""
      [] x.ty = "number" -> x.n # 0
      [] x.ty = "boolean" -> x.b
      [] OTHER -> TRUE

\* a || b
Or(a, b) == IF Truthy(a) THEN a ELSE b

\* obj.key
Member(x, key) ==
    IF x.ty = "object" /\ key \in DOMAIN x THEN x[key] ELSE Undefined

MemberNames == <<"text", "output", "answer", "response">>

RECURSIVE JSONText(_)
\* The text JSON.stringify gives: members that are undefined are left out.
JSONText(x) ==
    CASE x.ty = "string" -> "\"" \o x.s \o "\""
      [] x.ty = "number" -> ToString(x.n)
      [] x.ty = "boolean" -> IF x.b THEN "true" ELSE "false"
      [] x.ty = "object" ->
            LET present == SelectSeq(MemberNames, LAMBDA k : Member(x, k) # Undefined)
                member(i) == "\"" \o present[i] \o "\":" \o JSONText(Member(x, present[i]))
                join[i \in 0..Len(present)] ==
                    IF i = 0 THEN ""
                    ELSE IF i = 1 THEN member(1)
                    ELSE join[i - 1] \o "," \o member(i)
            IN "{" \o join[Len(present)] \o "}"
      [] OTHER -> "null"

\* a ?? b
Coalesce(a, b) == IF a.ty \in {"undefined", "null"} THEN b ELSE a

\* The normalisation with ?? in place of ||: the first member present.
ResponseText_FirstPresent(r) ==
    IF r.ty = "string" THEN r
    ELSE IF Truthy(r)
      THEN Coalesce(Coalesce(Coalesce(Member(r, "text"), Member(r, "output")),
                             Member(r, "answer")),
                    Str(JSONText(r)))
      ELSE Str("No response received.")

\* Lines 122-131 of handleSendMessage: the text shown for response.response.
ResponseText(r) ==
    IF r.ty = "string" THEN r
    ELSE IF Truthy(r)
      THEN Or(Or(Or(Member(r, "text"), Member(r, "output")), Member(r, "answer")),
              Str(JSONText(r)))
      ELSE Str("No response received.")

-----------------------------------------------------------------------------
(* The gateway's chat endpoints and the service functions that call them *)

\* What comes back from fetch(): no reply at all, or a status with a body
\* that is JSON (a value) or not.
NetworkFailure == [net |-> FALSE]

Reply(ok, json, body) == [net |-> TRUE, ok |-> ok, json |-> json, body |-> body]

Resolved(data) == [settled |-> "resolved", data |-> data]

Rejected(message) == [settled |-> "rejected", message |-> message]

\* The operations of the gateway service: uploadPolicy, getPolicies,
\* deletePolicy, clearAllPolicies, getChatResponse, getWebhookChatResponse.
Operations == {"upload", "list", "delete", "clearAll", "direct", "webhook"}

\* The detail put in place of an error body that is not JSON.
DefaultFailureText(op) ==
    CASE op = "upload" -> "Failed to upload policy."
      [] op = "list" -> "Failed to fetch policies."
      [] op = "delete" -> "Failed to delete policy."
      [] op = "clearAll" -> "Failed to clear all policies."
      [] op = "direct" -> "Failed to get chat response."
      [] op = "webhook" -> "Failed to get webhook chat response."

\* The message used when the error body has no detail.
UnknownErrorText(op) ==
    CASE op = "upload" -> "An unknown error occurred during upload."
      [] op = "list" -> "An unknown error occurred while fetching policies."
      [] op = "delete" -> "An unknown error occurred while deleting policy."
      [] op = "clearAll" -> "An unknown error occurred while clearing all policies."
      [] op = "direct" -> "An unknown error occurred during chat."
      [] op = "webhook" -> "An unknown error occurred during webhook chat."

\* String(v), as new Error(v) forms its message.
ToText(v) ==
    CASE v.ty = "string" -> v.s
      [] v.ty = "number" -> ToString(v.n)
      [] v.ty = "boolean" -> IF v.b THEN "true" ELSE "false"
      [] OTHER -> "[object Object]"

\* The outcome of a service function's promise for a reply: fetch rejects
\* without a reply; with an error status the body is read as JSON (a body
\* that is not JSON gives {detail: default}) and errorData.detail || unknown
\* is thrown, reading detail of a null body throwing by itself; with a
\* success status the body is returned, or the JSON error thrown.
ServiceOutcome(op, reply) ==
    IF ~reply.net THEN Rejected("Failed to fetch")
    ELSE IF ~reply.ok
      THEN IF ~reply.json
             THEN Rejected(DefaultFailureText(op))
             ELSE IF reply.body.ty = "null"
               THEN Rejected("Cannot read properties of null (reading 'detail')")
               ELSE IF Truthy(Member(reply.body, "detail"))
                      THEN Rejected(ToText(Member(reply.body, "detail")))
                      ELSE Rejected(UnknownErrorText(op))
      ELSE IF ~reply.json
             THEN Rejected("Unexpected token < in JSON at position 0")
             ELSE Resolved(reply.body)

\* getChatResponse / getWebhookChatResponse: the promise's outcome for a reply.
ChatOutcome(route, reply) == ServiceOutcome(route, reply)

\* The appended message when the catch branch never reads error.message.
AssistantMessage_UnknownError(outcome) ==
    IF outcome.settled = "resolved" /\ outcome.data.ty # "null"
      THEN [role |-> "assistant",
            content |-> ResponseText(Member(outcome.data, "response"))]
      ELSE [role |-> "assistant",
            content |-> Str("Sorry, I encountered an error: Unknown error"
                            \o ". Please check the console for details.")]

\* The message handleSendMessage appends for an outcome: the normalised
\* response, or the apology of the catch branch (reading .response of a null
\* body throws inside the try).
AssistantMessage(outcome) ==
    IF outcome.settled = "resolved"
      THEN IF outcome.data.ty = "null"
             THEN [role |-> "assistant",
                   content |-> Str("Sorry, I encountered an error: "
                                   \o "Cannot read properties of null (reading 'response')"
                                   \o ". Please check the console for details.")]
             ELSE [role |-> "assistant",
                   content |-> ResponseText(Member(outcome.data, "response"))]
      ELSE [role |-> "assistant",
            content |-> Str("Sorry, I encountered an error: " \o outcome.message
                            \o ". Please check the console for details.")]

\* The replies the gateway gives in the session specifications.
ChatReplies ==
    { Reply(TRUE, TRUE, Body(Str("You have 14 days of annual leave."))),
      Reply(TRUE, TRUE, Body(Obj(Num(42), Undefined, Undefined))),
      Reply(TRUE, TRUE, Body(Null)),
      Reply(FALSE, TRUE, [ty |-> "object", detail |-> Str("Session expired")]),
      NetworkFailure }

Messages == {"What is the leave policy?", "Who approves it?"}

-----------------------------------------------------------------------------
(* The Conversation Session *)

\* A chat request that always goes to the direct endpoint.
ChatRequest_DirectOnly(route, query, sid) ==
    [url |-> "/chat", method |-> "POST", form |-> [query |-> query, session_id |-> sid]]

\* The request getChatResponse (direct) or getWebhookChatResponse (webhook)
\* sends: the endpoint and the form fields.
ChatRequest(route, query, sid) ==
    IF route = "webhook"
      THEN [url |-> "/webhook/chat", method |-> "POST",
            form |-> [query |-> query, sessionId |-> sid]]
      ELSE [url |-> "/chat", method |-> "POST",
            form |-> [query |-> query, session_id |-> sid]]

\* A chat call in flight: the route, session id and message it was issued
\* with, and the request sent.
ChatCall(route, sid, query) ==
    [route |-> route, sessionId |-> sid, query |-> query,
     request |-> ChatRequest(route, query, sid)]

\* handleSendMessage without its guard on the session id.
handleSendMessage_NoGuard(message) ==
    /\ Len(chatHistory) + BagCardinality(chatCalls) + 2 <= MaxHistory
    /\ BagCardinality(chatCalls) < MaxChatCalls
    /\ chatHistory' = Append(chatHistory, [role |-> "user", content |-> Str(message)])
    /\ isLoading' = TRUE
    /\ chatCalls' = BagAdd(chatCalls,
          ChatCall(IF useWebhook THEN "webhook" ELSE "direct", sessionId, message))
    /\ UNCHANGED <<uploadTab, mounted, deletedNames, activeTab, registryVars, sessionId, useWebhook,
                   now, consoleError, docCallVars, serverPolicies>>

\* handleSendMessage putting the user message in front of the history.
handleSendMessage_Prepends(message) ==
    /\ Len(chatHistory) + BagCardinality(chatCalls) + 2 <= MaxHistory
    /\ BagCardinality(chatCalls) < MaxChatCalls
    /\ sessionId # NoSession
    /\ chatHistory' = <<[role |-> "user", content |-> Str(message)]>> \o chatHistory
    /\ isLoading' = TRUE
    /\ chatCalls' = BagAdd(chatCalls,
          ChatCall(IF useWebhook THEN "webhook" ELSE "direct", sessionId, message))
    /\ UNCHANGED <<uploadTab, mounted, deletedNames, activeTab, registryVars, sessionId, useWebhook,
                   now, consoleError, docCallVars, serverPolicies>>

\* handleSendMessage that refuses a send while another is pending.
handleSendMessage_RefusesWhilePending(message) ==
    /\ Len(chatHistory) + BagCardinality(chatCalls) + 2 <= MaxHistory
    /\ BagCardinality(chatCalls) < MaxChatCalls
    /\ IF sessionId = NoSession \/ isLoading
         THEN /\ consoleError' = "Send refused."
              /\ UNCHANGED <<chatHistory, isLoading, chatCalls>>
         ELSE /\ chatHistory' = Append(chatHistory, [role |-> "user", content |-> Str(message)])
              /\ isLoading' = TRUE
              /\ chatCalls' = BagAdd(chatCalls,
                    ChatCall(IF useWebhook THEN "webhook" ELSE "direct", sessionId, message))
              /\ UNCHANGED consoleError
    /\ UNCHANGED <<uploadTab, mounted, deletedNames, activeTab, registryVars, sessionId,
                   useWebhook, now, docCallVars, serverPolicies>>

\* handleSendMessage(message), up to the await: refused without a session,
\* else the user message is appended, the pending flag set and one call
\* issued on the selected route.
handleSendMessage(message) ==
    /\ Len(chatHistory) + BagCardinality(chatCalls) + 2 <= MaxHistory
    /\ BagCardinality(chatCalls) < MaxChatCalls
    /\ IF sessionId = NoSession
         THEN /\ consoleError' = "Session ID not initialized."
              /\ UNCHANGED <<chatHistory, isLoading, chatCalls>>
         ELSE /\ chatHistory' = Append(chatHistory, [role |-> "user", content |-> Str(message)])
              /\ isLoading' = TRUE
              /\ chatCalls' = BagAdd(chatCalls,
                    ChatCall(IF useWebhook THEN "webhook" ELSE "direct", sessionId, message))
              /\ UNCHANGED consoleError
    /\ UNCHANGED <<uploadTab, mounted, deletedNames, activeTab, registryVars, sessionId, useWebhook, now,
                   docCallVars, serverPolicies>>

\* handleSendMessage whose catch branch only logs: a rejected call appends
\* no assistant message.
handleSendMessageSettle_SilentOnReject(c, reply) ==
    /\ c \in InFlight(chatCalls)
    /\ chatCalls' = BagRemove(chatCalls, c)
    /\ LET outcome == ChatOutcome(c.route, reply) IN
         IF outcome.settled = "rejected"
           THEN /\ consoleError' = "Error fetching chat response:"
                /\ UNCHANGED chatHistory
           ELSE /\ chatHistory' = Append(chatHistory, AssistantMessage(outcome))
                /\ consoleError' =
                      IF outcome.data.ty = "null"
                        THEN "Error fetching chat response:" ELSE consoleError
    /\ isLoading' = FALSE
    /\ UNCHANGED <<uploadTab, mounted, deletedNames, activeTab, registryVars, sessionId, useWebhook,
                   now, docCallVars, serverPolicies>>

\* A settling that clears the pending flag only when no other call is left.
handleSendMessageSettle_CountsCalls(c, reply) ==
    /\ c \in InFlight(chatCalls)
    /\ chatCalls' = BagRemove(chatCalls, c)
    /\ LET outcome == ChatOutcome(c.route, reply) IN
         /\ chatHistory' = Append(chatHistory, AssistantMessage(outcome))
         /\ consoleError' =
               IF outcome.settled = "rejected" \/ outcome.data.ty = "null"
                 THEN "Error fetching chat response:" ELSE consoleError
    /\ isLoading' = (BagRemove(chatCalls, c) # EmptyBag)
    /\ UNCHANGED <<uploadTab, mounted, deletedNames, activeTab, registryVars, sessionId, useWebhook, now,
                   docCallVars, serverPolicies>>

\* handleSendMessage, after the call settled: one assistant message is
\* appended (try or catch branch) and the pending flag cleared (finally).
handleSendMessageSettle(c, reply) ==
    /\ c \in InFlight(chatCalls)
    /\ chatCalls' = BagRemove(chatCalls, c)
    /\ LET outcome == ChatOutcome(c.route, reply) IN
         /\ chatHistory' = Append(chatHistory, AssistantMessage(outcome))
         /\ consoleError' =
               IF outcome.settled = "rejected" \/ outcome.data.ty = "null"
                 THEN "Error fetching chat response:" ELSE consoleError
    /\ isLoading' = FALSE
    /\ UNCHANGED <<uploadTab, mounted, deletedNames, activeTab, registryVars, sessionId, useWebhook, now,
                   docCallVars, serverPolicies>>

\* A submit handler that passes the input on as typed, whatever the flag.
handleSubmit_NoChecks(input) ==
    /\ mounted
    /\ activeTab = "chat"
    /\ handleSendMessage(input)

\* ChatTab.handleSubmit with the text typed in the input field: when the
\* trimmed text is not empty and isLoading is false, onSendMessage is
\* called with the trimmed text (and the field emptied); else nothing.
handleSubmit(input) ==
    /\ mounted
    /\ activeTab = "chat"
    /\ Trim(input) # ""
    /\ ~isLoading
    /\ handleSendMessage(Trim(input))

\* clearChat that resets the messages and keeps the session id.
clearChat_KeepsSession ==
    /\ mounted
    /\ activeTab = "chat"
    /\ chatHistory' = <<Greeting>>
    /\ UNCHANGED <<uploadTab, mounted, deletedNames, activeTab, registryVars, isLoading, sessionId,
                   useWebhook, now, consoleError, docCallVars, chatCalls, serverPolicies>>

\* clearChat that also drops the calls in flight.
clearChat_CancelsCalls ==
    /\ mounted
    /\ activeTab = "chat"
    /\ \E r \in Rand : sessionId' = NewSessionId(now, r)
    /\ chatHistory' = <<Greeting>>
    /\ chatCalls' = EmptyBag
    /\ UNCHANGED <<uploadTab, mounted, deletedNames, activeTab, registryVars, isLoading,
                   useWebhook, now, consoleError, docCallVars, serverPolicies>>

\* clearChat that also empties the document collection and its mirror.
clearChat_ClearsDocuments ==
    /\ mounted
    /\ activeTab = "chat"
    /\ \E r \in Rand : sessionId' = NewSessionId(now, r)
    /\ chatHistory' = <<Greeting>>
    /\ uploadedPolicies' = <<>>
    /\ localStorage' = NoItem
    /\ UNCHANGED <<uploadTab, mounted, deletedNames, activeTab, isLoading, useWebhook, now,
                   consoleError, docCallVars, chatCalls, serverPolicies>>

\* clearChat: a new session id and the greeting alone.
clearChat ==
    /\ mounted
    /\ activeTab = "chat"
    /\ \E r \in Rand : sessionId' = NewSessionId(now, r)
    /\ chatHistory' = <<Greeting>>
    /\ UNCHANGED <<uploadTab, mounted, deletedNames, activeTab, registryVars, isLoading, useWebhook, now,
                   consoleError, docCallVars, chatCalls, serverPolicies>>

\* A route toggle that also starts a new session.
setUseWebhook_NewSession(enabled) ==
    /\ mounted
    /\ activeTab = "chat"
    /\ useWebhook # enabled
    /\ useWebhook' = enabled
    /\ sessionId' = NewSessionId(now + 1, "k3x9q2a")
    /\ UNCHANGED <<uploadTab, mounted, deletedNames, activeTab, registryVars, chatHistory, isLoading,
                   now, consoleError, docCallVars, chatCalls, serverPolicies>>

\* The route toggle of the chat view: setUseWebhook(enabled).
setUseWebhook(enabled) ==
    /\ mounted
    /\ activeTab = "chat"
    /\ useWebhook # enabled
    /\ useWebhook' = enabled
    /\ UNCHANGED <<uploadTab, mounted, deletedNames, activeTab, registryVars, chatHistory, isLoading, sessionId,
                   now, consoleError, docCallVars, chatCalls, serverPolicies>>

\* Time passes: Date.now() reads one more.
Tick ==
    /\ now < MaxClock
    /\ now' = now + 1
    /\ UNCHANGED <<uploadTab, mounted, deletedNames, activeTab, registryVars, sessionVars, consoleError,
                   docCallVars, chatCalls, serverPolicies>>

-----------------------------------------------------------------------------
(* Specifications *)

\* The state after construction: the useState initial values, nothing in
\* flight; localStorage holds what a previous run left, the gateway holds
\* some list.
Init ==
    /\ mounted = FALSE
    /\ activeTab = "chat"
    /\ uploadedPolicies = <<>>
    /\ localStorage \in {NoItem, GarbageItem, CachedItem}
    /\ chatHistory = <<Greeting>>
    /\ isLoading = FALSE
    /\ sessionId = NoSession
    /\ useWebhook = FALSE
    /\ now = 0
    /\ consoleError = ""
    /\ policyFetches = EmptyBag
    /\ refreshTimers = EmptyBag
    /\ deleteCalls = EmptyBag
    /\ clearCalls = 0
    /\ uploadCalls = EmptyBag
    /\ chatCalls = EmptyBag
    /\ deletedNames = {}
    /\ uploadTab = FreshUploadTab
    /\ serverPolicies \in {<<>>, <<ServerRecord("a.pdf")>>,
                           <<ServerRecord("a.pdf"), ServerRecord("b.pdf")>>}

RegistryNext ==
    \/ Mount
    \/ \E f \in InFlight(policyFetches) : GetPoliciesRespond(f)
    \/ \E f \in InFlight(policyFetches) : loadPoliciesResolve(f)
    \/ \E f \in InFlight(policyFetches) : loadPoliciesReject(f)
    \/ refreshPolicies
    \/ \E n \in Names : RefreshTimerFires(n)
    \/ \E f \in InFlight(policyFetches) : refreshPoliciesResolve(f)
    \/ \E f \in InFlight(policyFetches) : refreshPoliciesReject(f)
    \/ \E selectedFile \in Files : handleFileChange(selectedFile)
    \/ \E text \in PolicyTypes : setPolicyType(text)
    \/ \E n \in Names : handleUploadClick(n)
    \/ \E n \in Names : handleUploadClickResolve(n)
    \/ \E n \in Names : handleUploadClickReject(n)
    \/ \E n \in Names : handleDeletePolicy(n)
    \/ \E n \in Names : handleDeletePolicyResolve(n)
    \/ \E n \in Names : handleDeletePolicyReject(n)
    \/ clearAllPolicies
    \/ clearAllPoliciesResolve
    \/ clearAllPoliciesReject
    \/ \E tab \in {"upload", "chat"} : setActiveTab(tab)

\* The Document Registry at work, the Conversation Session idle.
SpecRegistry == Init /\ [][RegistryNext]_vars

SendNext ==
    \/ Mount
    \/ \E m \in Messages : handleSendMessage(m)
    \/ \E c \in InFlight(chatCalls), reply \in ChatReplies : handleSendMessageSettle(c, reply)
    \/ \E enabled \in BOOLEAN : setUseWebhook(enabled)

SessionNext ==
    \/ SendNext
    \/ clearChat
    \/ Tick

\* Startup with nothing cached and an empty gateway.
InitEmpty == Init /\ localStorage = NoItem /\ serverPolicies = <<>>

\* Sends alone: the session is never cleared.
SpecSends == InitEmpty /\ [][SendNext]_vars

\* The Conversation Session at work, the Document Registry idle after mount.
SpecSession == InitEmpty /\ [][SessionNext]_vars

Next == RegistryNext \/ SessionNext

Spec == Init /\ [][Next]_vars

\* Startup with a list cached by a previous run.
InitCached == Init /\ localStorage = CachedItem

SpecCached == InitCached /\ [][RegistryNext]_vars

\* Values of response.response: plain strings, null, absent, and objects
\* whose members text, output, answer are absent, empty, zero or a text.
Payloads ==
    {Str(""), Str("14 days"), Null, Undefined}
      \cup {Obj(t, o, a) : t \in {Undefined, Str(""), Str("14 days"), Str("T")},
                           o \in {Undefined, Str(""), Str("14 days")},
                           a \in {Undefined, Str(""), Str("14 days"), Num(0)}}
      \cup {Obj(Str(""), Str("O"), a) : a \in {Undefined, Str("14 days")}}

\* Replies with which a call fails: no reply, an error status with a
\* detail, without one, with an empty one, with the body null, with a body
\* that is not JSON, a success status with a body that is not JSON.
FailureReplies ==
    { NetworkFailure,
      Reply(FALSE, TRUE, [ty |-> "object", detail |-> Str("Session expired")]),
      Reply(FALSE, TRUE, Obj(Undefined, Undefined, Undefined)),
      Reply(FALSE, TRUE, [ty |-> "object", detail |-> Str("")]),
      Reply(FALSE, TRUE, Null),
      Reply(FALSE, FALSE, Undefined),
      Reply(TRUE, FALSE, Undefined) }

AllReplies == FailureReplies \cup {Reply(TRUE, TRUE, Body(r)) : r \in Payloads}

\* One send at a time, answered by any reply.
RepliesNext ==
    \/ Mount
    \/ \E m \in Messages : isLoading = FALSE /\ handleSendMessage(m)
    \/ \E c \in InFlight(chatCalls), reply \in AllReplies : handleSendMessageSettle(c, reply)
    \/ \E enabled \in BOOLEAN : setUseWebhook(enabled)

SpecReplies == InitEmpty /\ [][RepliesNext]_vars

\* Startup with no list cached: the item is not set or is not JSON.
InitUncached == Init /\ localStorage \in {NoItem, GarbageItem}

SpecUncached == InitUncached /\ [][RegistryNext]_vars

\* The replies of the whole-application specification: an answer and a
\* network failure.
AppReplies ==
    {Reply(TRUE, TRUE, Body(Str("You have 14 days of annual leave."))), NetworkFailure}

\* Every handler of App: the document handlers with one file name, the
\* conversation handlers with one message and a short history.
AppNext ==
    \/ Mount
    \/ \E f \in InFlight(policyFetches) : GetPoliciesRespond(f)
    \/ \E f \in InFlight(policyFetches) : loadPoliciesResolve(f)
    \/ \E f \in InFlight(policyFetches) : loadPoliciesReject(f)
    \/ refreshPolicies
    \/ \E n \in {"a.pdf"} : RefreshTimerFires(n)
    \/ \E f \in InFlight(policyFetches) : refreshPoliciesResolve(f)
    \/ \E f \in InFlight(policyFetches) : refreshPoliciesReject(f)
    \/ \E selectedFile \in {PdfFile("a.pdf")} : handleFileChange(selectedFile)
    \/ \E text \in {"HR "} : setPolicyType(text)
    \/ \E n \in {"a.pdf"} : handleUploadClick(n)
    \/ \E n \in {"a.pdf"} : handleUploadClickResolve(n)
    \/ \E n \in {"a.pdf"} : handleUploadClickReject(n)
    \/ \E n \in {"a.pdf"} : handleDeletePolicy(n)
    \/ \E n \in {"a.pdf"} : handleDeletePolicyResolve(n)
    \/ \E n \in {"a.pdf"} : handleDeletePolicyReject(n)
    \/ clearAllPolicies
    \/ clearAllPoliciesResolve
    \/ clearAllPoliciesReject
    \/ \E tab \in {"upload", "chat"} : setActiveTab(tab)
    \/ \E m \in {"What is the leave policy?"} :
          Len(chatHistory) + 2 <= MaxAppHistory /\ handleSendMessage(m)
    \/ \E c \in InFlight(chatCalls), reply \in AppReplies : handleSendMessageSettle(c, reply)
    \/ \E enabled \in BOOLEAN : setUseWebhook(enabled)
    \/ clearChat

\* The whole application, started with nothing cached and an empty gateway.
SpecApp == InitEmpty /\ [][AppNext]_vars

\* List calls overlapping each other and deletions; nothing is uploaded.
FetchesNext ==
    \/ Mount
    \/ \E f \in InFlight(policyFetches) : GetPoliciesRespond(f)
    \/ \E f \in InFlight(policyFetches) : loadPoliciesResolve(f)
    \/ \E f \in InFlight(policyFetches) : loadPoliciesReject(f)
    \/ refreshPoliciesWithin(MaxListCalls)
    \/ \E f \in InFlight(policyFetches) : refreshPoliciesResolve(f)
    \/ \E f \in InFlight(policyFetches) : refreshPoliciesReject(f)
    \/ \E n \in Names : handleDeletePolicy(n)
    \/ \E n \in Names : handleDeletePolicyResolve(n)
    \/ \E n \in Names : handleDeletePolicyReject(n)

SpecFetches == Init /\ [][FetchesNext]_vars

\* Uploads of one document with the operations that could get in the way
\* of the scheduled refresh: delete, clear all, clear chat, tab changes.
TimersNext ==
    \/ Mount
    \/ \E f \in InFlight(policyFetches) : GetPoliciesRespond(f)
    \/ \E f \in InFlight(policyFetches) : loadPoliciesResolve(f)
    \/ \E f \in InFlight(policyFetches) : loadPoliciesReject(f)
    \/ \E n \in {"a.pdf"} : RefreshTimerFires(n)
    \/ \E f \in InFlight(policyFetches) : refreshPoliciesResolve(f)
    \/ \E f \in InFlight(policyFetches) : refreshPoliciesReject(f)
    \/ \E selectedFile \in {PdfFile("a.pdf")} : handleFileChange(selectedFile)
    \/ \E text \in {"HR "} : setPolicyType(text)
    \/ \E n \in {"a.pdf"} : handleUploadClick(n)
    \/ \E n \in {"a.pdf"} : handleUploadClickResolve(n)
    \/ \E n \in {"a.pdf"} : handleUploadClickReject(n)
    \/ \E n \in {"a.pdf"} : handleDeletePolicy(n)
    \/ \E n \in {"a.pdf"} : handleDeletePolicyResolve(n)
    \/ \E n \in {"a.pdf"} : handleDeletePolicyReject(n)
    \/ clearAllPolicies
    \/ clearAllPoliciesResolve
    \/ clearAllPoliciesReject
    \/ \E tab \in {"upload", "chat"} : setActiveTab(tab)
    \/ clearChat

\* A timer that was set expires: the callback of setTimeout is run.
TimersFairness == \A n \in Names : WF_vars(RefreshTimerFires(n))

SpecTimers == InitEmpty /\ [][TimersNext]_vars /\ TimersFairness

-----------------------------------------------------------------------------
(* Properties of the Document Registry *)

\* The records of ps whose name is not n, in their order.
OtherRecords(ps, n) ==
    LET keep == {i \in 1..Len(ps) : ps[i].name # n}
        nth[k \in 0..Len(ps)] ==
            IF k = 0 THEN 0 ELSE CHOOSE i \in keep : i > nth[k - 1] /\ \A j \in keep : j > nth[k - 1] => i <= j
    IN [k \in 1..Cardinality(keep) |-> ps[nth[k]]]

DeleteIssued(n) == CopiesIn(n, deleteCalls') > CopiesIn(n, deleteCalls)

DeleteSettled(n) == CopiesIn(n, deleteCalls') < CopiesIn(n, deleteCalls)

C2_LoadFallsBackToCache ==
    [][\A f \in InFlight(policyFetches) :
          (loadPoliciesReject(f) /\ uploadedPolicies = <<>> /\ UnderWay = 1)
              => uploadedPolicies' = ParseSavedPolicies(CachedItem)]_vars

ClearSettled == clearCalls' < clearCalls

\* C4: after clearAll() has settled, the visible collection is empty and
\* localStorage holds no item for the document list.
C4_ClearAllDropsMirror ==
    [][ClearSettled => uploadedPolicies' = <<>> /\ localStorage' = NoItem]_vars

\* The step is an accepted upload of n being recorded.
UploadRecorded(n) == CopiesIn(n, refreshTimers') > CopiesIn(n, refreshTimers)

\* The step is a successful load or refresh whose list holds n.
FetchedWith(n) ==
    \E f \in InFlight(policyFetches) :
        /\ f.resp.st = "ok"
        /\ \E i \in 1..Len(f.resp.policies) : f.resp.policies[i].name = n
        /\ policyFetches' = BagRemove(policyFetches, f)
        /\ uploadedPolicies' = MapPolicies(f.resp.policies)

\* C7 (as stated): once delete(n) has been applied locally and n is not
\* uploaded again, the record named n stays absent from the visible
\* collection.
C7_DeletedStaysAbsent ==
    \A n \in Names : n \in deletedNames => ~HasName(uploadedPolicies, n)

\* C7 (amended): a name that is absent from the visible collection (because
\* delete(n) was applied, or for any other reason) becomes present only by
\* an upload of n being recorded or by a successful load or refresh whose
\* list holds n; the outcome of the delete call never brings it back.
C7_AbsentUntilUploadOrFetch ==
    [][\A n \in Names :
          (~HasName(uploadedPolicies, n) /\ HasName(uploadedPolicies', n))
              => UploadRecorded(n) \/ FetchedWith(n)]_vars

\* a.pdf was deleted locally, is absent, and a list call answered with
\* a.pdf is still in flight.
C7_Witness ==
    /\ "a.pdf" \in deletedNames
    /\ ~HasName(uploadedPolicies, "a.pdf")
    /\ \E f \in InFlight(policyFetches) :
          f.resp.st = "ok" /\ \E i \in 1..Len(f.resp.policies) : f.resp.policies[i].name = "a.pdf"

\* C8: no two records of the visible collection have the same name.
C8_NamesUnique ==
    \A n \in Names : CountName(uploadedPolicies, n) <= 1

\* The step is the delayed refresh of an upload of n succeeding.
DelayedRefreshSucceeds(n, f) == f.policy = n /\ refreshPoliciesResolve(f)

UploadRecordedFirst(n) ==
    UploadRecorded(n) =>
        /\ Len(uploadedPolicies') = Len(uploadedPolicies) + 1
        /\ uploadedPolicies'[1].name = n
        /\ Tail(uploadedPolicies') = uploadedPolicies

\* C9 (as stated): recordOptimisticUpload(doc) puts doc first and keeps the
\* others in order behind it, and once the delayed refresh succeeds the
\* collection holds the server-confirmed record of that name exactly once.
C9_RefreshHoldsUploadOnce ==
    [][\A n \in Names :
          /\ UploadRecordedFirst(n)
          /\ \A f \in InFlight(policyFetches) :
                DelayedRefreshSucceeds(n, f) =>
                    /\ CountName(uploadedPolicies', n) = 1
                    /\ \E i \in 1..Len(uploadedPolicies') :
                          uploadedPolicies'[i] = MapPolicies(<<ServerRecord(n)>>)[1]]_vars

\* C9 (amended): recordOptimisticUpload(doc) puts doc first and keeps the
\* others in order behind it; once the delayed refresh succeeds the
\* collection is the mapped list the gateway answered with, in its order:
\* it holds every name as often as that list does, and no record that the
\* list does not hold, so the uploaded name appears once when the gateway
\* still lists it and not at all when it was deleted or cleared there.
C9_RefreshReplacesOptimistic ==
    [][\A n \in Names :
          /\ UploadRecordedFirst(n)
          /\ \A f \in InFlight(policyFetches) :
                DelayedRefreshSucceeds(n, f) =>
                    /\ Len(uploadedPolicies') = Len(f.resp.policies)
                    /\ \A i \in 1..Len(f.resp.policies) :
                          /\ uploadedPolicies'[i].name = f.resp.policies[i].name
                          /\ uploadedPolicies'[i].pages = f.resp.policies[i].pages
                          /\ uploadedPolicies'[i].uploadedAt = f.resp.policies[i].uploaded_at.t
                    /\ \A m \in Names :
                          CountName(uploadedPolicies', m) =
                              Cardinality({i \in 1..Len(f.resp.policies) :
                                              f.resp.policies[i].name = m})]_vars

\* The delayed refresh of an upload of a.pdf has replaced the optimistic
\* record: the gateway's record of a.pdf is shown once, behind b.pdf, and
\* nothing is under way.
C9_Witness ==
    /\ uploadedPolicies = MapPolicies(<<ServerRecord("b.pdf"), ServerRecord("a.pdf")>>)
    /\ serverPolicies = <<ServerRecord("b.pdf"), ServerRecord("a.pdf")>>
    /\ UnderWay = 0

-----------------------------------------------------------------------------
(* Properties of the Conversation Session *)

RoleCount(role) == Cardinality({i \in 1..Len(chatHistory) : chatHistory[i].role = role})

\* C3: with sends alone, the user messages are as many as the assistant
\* messages after the greeting plus the calls still outstanding; so once
\* every call has settled each user message has its one assistant message.
C3_MessageParity ==
    /\ chatHistory[1] = Greeting
    /\ RoleCount("user") = (RoleCount("assistant") - 1) + BagCardinality(chatCalls)

\* Two sends have settled, one resolved and one rejected: five messages,
\* nothing outstanding.
C3_Witness ==
    /\ chatCalls = EmptyBag
    /\ Len(chatHistory) = 5
    /\ \E i, j \in 2..5 :
          /\ chatHistory[i] = AssistantMessage(Rejected("Failed to fetch"))
          /\ chatHistory[j].content = Str("You have 14 days of annual leave.")

\* C5: the content of every message of the conversation is a string.
C5_ContentIsString ==
    \A i \in 1..Len(chatHistory) : chatHistory[i].content.ty = "string"

\* C6 (as stated): clear() sets sessionId to a value different from the
\* previous one and from every id in use, and leaves the greeting alone in
\* the message sequence.
C6_ClearNeverReusesId ==
    [][clearChat =>
          /\ sessionId' # sessionId
          /\ \A c \in InFlight(chatCalls) : c.sessionId # sessionId'
          /\ chatHistory' = <<Greeting>>]_vars

\* C6 (amended): clear() sets sessionId to an id generated from the current
\* clock reading and a random suffix, which differs from the previous id and
\* from the id of every call in flight that was generated at another clock
\* reading (an id generated at the same reading with the same suffix is the
\* same id), and leaves the greeting alone in the message sequence.
C6_ClearRegeneratesId ==
    [][clearChat =>
          /\ sessionId' # NoSession
          /\ sessionId'.t = now
          /\ sessionId'.r \in Rand
          /\ sessionId.t # now => sessionId' # sessionId
          /\ \A c \in InFlight(chatCalls) : c.sessionId.t # now => c.sessionId # sessionId'
          /\ chatHistory' = <<Greeting>>]_vars

\* The conversation was cleared after the clock moved on: the greeting
\* alone, a session id of the later reading, and a call of the earlier
\* session still in flight.
C6_Witness ==
    /\ chatHistory = <<Greeting>>
    /\ sessionId.t = 1
    /\ \E c \in InFlight(chatCalls) : c.sessionId.t = 0

\* C10: while no session exists, a send appends no message, leaves the
\* pending flag as it is and issues no call, and creating the session
\* afterwards sends nothing either.
C10_SendRefusedWithoutSession ==
    [][sessionId = NoSession =>
          /\ chatHistory' = chatHistory
          /\ isLoading' = isLoading
          /\ chatCalls' = chatCalls]_vars

\* A send was refused, then the session was created: nothing was sent.
C10_Witness ==
    /\ consoleError = "Session ID not initialized."
    /\ sessionId # NoSession
    /\ chatHistory = <<Greeting>>
    /\ chatCalls = EmptyBag
    /\ ~isLoading

-----------------------------------------------------------------------------
(* Properties of failed sends and of the response normaliser *)

\* String.prototype.includes
Contains(s, t) == \E i \in 1..(Len(s) - Len(t) + 1) : SubSeq(s, i, i + Len(t) - 1) = t

LastMessage(h) == h[Len(h)]

\* C11: when the gateway call of a send rejects, the pending flag is
\* cleared, exactly one assistant message is appended whose text embeds the
\* failure's message (the detail of the reply, or the generic text when it
\* has none), and the user message appended at send time is kept.
C11_RejectionAppendsApology ==
    [][\A c \in InFlight(chatCalls), reply \in AllReplies :
          (handleSendMessageSettle(c, reply) /\ ChatOutcome(c.route, reply).settled = "rejected")
            => /\ isLoading' = FALSE
               /\ Len(chatHistory') = Len(chatHistory) + 1
               /\ SubSeq(chatHistory', 1, Len(chatHistory)) = chatHistory
               /\ LastMessage(chatHistory').role = "assistant"
               /\ LastMessage(chatHistory').content.ty = "string"
               /\ Contains(LastMessage(chatHistory').content.s,
                           ChatOutcome(c.route, reply).message)
               /\ \E i \in 1..Len(chatHistory') :
                     chatHistory'[i] = [role |-> "user", content |-> Str(c.query)]]_vars

\* A send on the direct route was answered by a network failure: the user
\* message is followed by the apology naming the failure, nothing pending.
C11_Witness ==
    /\ Len(chatHistory) = 3
    /\ chatHistory[2] = [role |-> "user", content |-> Str("What is the leave policy?")]
    /\ chatHistory[3].role = "assistant"
    /\ Contains(chatHistory[3].content.s, "Sorry, I encountered an error: Failed to fetch")
    /\ isLoading = FALSE
    /\ chatCalls = EmptyBag

\* The call c was answered with success and response member r, and the
\* handler has appended its message.
Answered(c, r) == handleSendMessageSettle(c, Reply(TRUE, TRUE, Body(r)))

\* C12: the normaliser maps {text: X}, {output: X}, {answer: X} and the
\* plain string X to X for every string X, the empty one included; {} to a
\* non-empty string; null and an absent value to the no-response text.
C12_NormalizerRoundTrip ==
    [][\A c \in InFlight(chatCalls) :
          /\ \A x \in {"", "14 days"} :
                \A r \in {Str(x), Obj(Str(x), Undefined, Undefined),
                           Obj(Undefined, Str(x), Undefined),
                           Obj(Undefined, Undefined, Str(x))} :
                   Answered(c, r) => LastMessage(chatHistory').content = Str(x)
          /\ Answered(c, Obj(Undefined, Undefined, Undefined))
                => /\ LastMessage(chatHistory').content.ty = "string"
                   /\ LastMessage(chatHistory').content.s # ""
          /\ \A r \in {Null, Undefined} :
                Answered(c, r)
                  => LastMessage(chatHistory').content = Str("No response received.")]_vars

FieldOrder == <<"text", "output", "answer">>

\* The fields of r, in probing order, that satisfy Test.
Fields(r, Test(_)) == SelectSeq(FieldOrder, LAMBDA k : Test(Member(r, k)))

IsPresent(v) == v # Undefined

StructuredPayloads == {r \in Payloads : r.ty = "object"}

-----------------------------------------------------------------------------
(* Properties of failing list calls and of the mirror *)

\* The list call f, which the gateway never answered, is over.
FetchFails(kind, f) ==
    /\ f.kind = kind
    /\ f.resp = Pending
    /\ policyFetches' = BagRemove(policyFetches, f)

\* The localStorage item holds no document: not set, not JSON, or the
\* empty list.
NothingCached == localStorage \in {NoItem, GarbageItem, SavedItem(<<>>)}

\* C14: when the list call of load() fails and localStorage holds no usable
\* list, the registry is empty afterwards and nothing is raised: the
\* application stays mounted and its other state is untouched.
C14_FailedLoadLeavesEmpty ==
    [][\A f \in InFlight(policyFetches) :
          (FetchFails("load", f) /\ NothingCached)
            => /\ uploadedPolicies' = <<>>
               /\ mounted'
               /\ UNCHANGED <<activeTab, sessionVars>>]_vars

\* The gateway holds two documents, the load is over, nothing else was
\* done, and the registry is empty: the load failed.
C14_Witness ==
    /\ mounted
    /\ Len(serverPolicies) = 2
    /\ uploadedPolicies = <<>>
    /\ policyFetches = EmptyBag /\ uploadCalls = EmptyBag /\ refreshTimers = EmptyBag
    /\ deleteCalls = EmptyBag /\ clearCalls = 0
    /\ deletedNames = {}
    /\ activeTab = "chat"

\* C15: a refresh whose list call fails leaves the visible collection and
\* the mirror exactly as they were and raises nothing; an optimistic record
\* is still there afterwards.
C15_FailedRefreshChangesNothing ==
    [][\A f \in InFlight(policyFetches) :
          FetchFails("refresh", f)
            => /\ UNCHANGED <<uploadedPolicies, localStorage>>
               /\ mounted'
               /\ UNCHANGED <<activeTab, sessionVars>>]_vars

\* An optimistic record (estimated page count) heads the collection though
\* the upload, its timer and its refresh are all over: the refresh failed.
C15_Witness ==
    /\ Len(uploadedPolicies) >= 1
    /\ uploadedPolicies[1].pages = NewDoc("a.pdf", 0).pages
    /\ UnderWay = 0
    /\ localStorage = StringifyPolicies(uploadedPolicies)

\* C16: once the application has started, in every state the mirror holds
\* the serialisation of the whole current collection.
C16_MirrorAgrees ==
    mounted => localStorage = StringifyPolicies(uploadedPolicies)

\* An optimistic record was put in front of a fetched one and the mirror
\* holds both, the dates as ISO text.
C16_Witness ==
    /\ Len(uploadedPolicies) = 2
    /\ uploadedPolicies[1].pages = NewDoc("a.pdf", 0).pages
    /\ uploadedPolicies[2].pages = ServerRecord("a.pdf").pages
    /\ localStorage.kind = "array"
    /\ Len(localStorage.items) = 2
    /\ localStorage.items[1].uploadedAt.j = "iso"
    /\ localStorage.items[1].name = uploadedPolicies[1].name

-----------------------------------------------------------------------------
(* Properties of the whole application *)

\* The step is the start of the application.
Starts == ~mounted /\ mounted'

\* The step is clear(): the history is the greeting alone and nothing but
\* the history and the session id changes.
Clears ==
    /\ mounted
    /\ chatHistory' = <<Greeting>>
    /\ UNCHANGED <<mounted, activeTab, registryVars, isLoading, useWebhook, docCallVars,
                   chatCalls, serverPolicies>>

\* C17: sessionId is set once at application start and afterwards changes
\* only through clear(): sending, the settling of a send, route switching
\* and every document operation leave it unchanged.
C17_SessionIdFrame ==
    [][/\ Starts => (sessionId = NoSession /\ sessionId' # NoSession)
       /\ sessionId' # sessionId => (Starts \/ Clears)]_vars

\* A document was uploaded and recorded, a message was sent on the webhook
\* route and answered, and the application has its session id.
C17_Witness ==
    /\ mounted
    /\ sessionId # NoSession
    /\ Len(uploadedPolicies) >= 1
    /\ Len(chatHistory) = 3
    /\ useWebhook
    /\ chatCalls = EmptyBag

IsPrefix(a, b) == Len(a) <= Len(b) /\ SubSeq(b, 1, Len(a)) = a

\* C18: the message sequence is append-only between clears (every step
\* that is not clear() keeps the existing messages as a prefix of the new
\* sequence), and in every state its first message is the greeting.
C18_AppendOnlyAfterGreeting ==
    /\ [](Len(chatHistory) >= 1 /\ chatHistory[1] = Greeting)
    /\ [][Clears \/ IsPrefix(chatHistory, chatHistory')]_vars

\* Two sends were answered one after the other: greeting, user, assistant,
\* user, assistant.
C18_Witness ==
    /\ Len(chatHistory) = 5
    /\ chatHistory[1] = Greeting
    /\ <<chatHistory[2].role, chatHistory[3].role, chatHistory[4].role, chatHistory[5].role>>
          = <<"user", "assistant", "user", "assistant">>
    /\ chatHistory[3].content # chatHistory[5].content

\* The step appends a user message: a send was accepted.
SendAccepted ==
    /\ Len(chatHistory') = Len(chatHistory) + 1
    /\ LastMessage(chatHistory').role = "user"

\* C19: each accepted send dispatches exactly one gateway call, to the
\* endpoint of the route selected when the send was issued (direct: POST
\* /chat with field session_id; webhook: POST /webhook/chat with field
\* sessionId), carrying the session id current at that moment; no other
\* step dispatches a chat call (no second endpoint, no retry).
C19_OneCallOnSelectedRoute ==
    [][/\ SendAccepted
            => \E c \in InFlight(chatCalls') :
                  /\ chatCalls' = BagAdd(chatCalls, c)
                  /\ c.request.method = "POST"
                  /\ c.request.form.query = LastMessage(chatHistory').content.s
                  /\ IF useWebhook
                       THEN /\ c.request.url = "/webhook/chat"
                            /\ DOMAIN c.request.form = {"query", "sessionId"}
                            /\ c.request.form.sessionId = sessionId
                       ELSE /\ c.request.url = "/chat"
                            /\ DOMAIN c.request.form = {"query", "session_id"}
                            /\ c.request.form.session_id = sessionId
       /\ ~SendAccepted
            => \A c \in InFlight(chatCalls') : CopiesIn(c, chatCalls') <= CopiesIn(c, chatCalls)]_vars

\* Two calls are in flight, one sent on each route, both with the session
\* id of the application.
C19_Witness ==
    /\ BagCardinality(chatCalls) = 2
    /\ \E c, d \in InFlight(chatCalls) :
          /\ c.request.url = "/chat" /\ c.request.form.session_id = sessionId
          /\ d.request.url = "/webhook/chat" /\ d.request.form.sessionId = sessionId
    /\ Len(chatHistory) = 3

-----------------------------------------------------------------------------
(* Properties of uploads *)

UploadIssued(n) == CopiesIn(n, uploadCalls') > CopiesIn(n, uploadCalls)

\* The records built by the upload view (estimated page count).
OptimisticCount(ps) ==
    Cardinality({i \in 1..Len(ps) : ps[i].pages = NewDoc(ps[i].name, 0).pages})

\* C20: a document record is created locally only after the gateway has
\* accepted the upload.  An upload call is issued only with a file selected
\* and a policy type that is not blank, and issuing it adds nothing; a
\* record built by the upload view appears only in the step in which the
\* upload call of its name resolves, the gateway holding the document; a
\* failed upload call leaves the collection and the mirror unchanged and
\* schedules no refresh.
C20_RecordOnlyAfterAccept ==
    [][/\ \A n \in Names :
             UploadIssued(n)
               => /\ uploadTab.file = PdfFile(n)
                  /\ Trim(uploadTab.policyType) # ""
                  /\ UNCHANGED <<uploadedPolicies, localStorage, refreshTimers, policyFetches>>
       /\ OptimisticCount(uploadedPolicies') > OptimisticCount(uploadedPolicies)
             => \E n \in InFlight(uploadCalls) :
                   /\ uploadCalls' = BagRemove(uploadCalls, n)
                   /\ uploadedPolicies' = <<NewDoc(n, now)>> \o uploadedPolicies
                   /\ HasName(serverPolicies', n)
       /\ \A n \in Names :
             handleUploadClickReject(n)
               => UNCHANGED <<uploadedPolicies, localStorage, refreshTimers, policyFetches>>]_vars

\* An upload failed: the view shows the error, no call is left, nothing
\* was recorded and no refresh is scheduled or under way.
C20_Witness ==
    /\ uploadTab.error = "Failed to fetch"
    /\ uploadTab.file = PdfFile("a.pdf")
    /\ uploadCalls = EmptyBag
    /\ uploadedPolicies = <<>>
    /\ localStorage = StringifyPolicies(<<>>)
    /\ refreshTimers = EmptyBag
    /\ policyFetches = EmptyBag
    /\ serverPolicies = <<>>

\* C21: only PDF files are accepted.  In every state the selected file is
\* none or of type application/pdf; an upload call is issued only for the
\* selected file; selecting a file of another type clears the selection
\* and sets the error.
C21_OnlyPdfSelected ==
    /\ [](uploadTab.file = NoFile \/ uploadTab.file.type = "application/pdf")
    /\ [][/\ \A n \in Names \cup {"notes.txt"} :
               UploadIssued(n) => uploadTab.file = [name |-> n, type |-> "application/pdf"]
          /\ \A n \in InFlight(uploadCalls') : n \in Names
          /\ \A selectedFile \in Files :
               (selectedFile.type # "application/pdf" /\ handleFileChange(selectedFile))
                 => /\ uploadTab'.file = NoFile
                    /\ uploadTab'.error = "Only PDF files are allowed."]_vars

\* A text file was picked in the upload view: nothing is selected and the
\* error is shown.
C21_Witness ==
    /\ activeTab = "upload"
    /\ uploadTab.file = NoFile
    /\ uploadTab.error = "Only PDF files are allowed."
    /\ uploadCalls = EmptyBag

-----------------------------------------------------------------------------
(* Properties of overlapping list calls *)

\* ps is the list the gateway answered with, record by record: the same
\* names in the same order, uploaded_at read as a time.
IsMappedList(ps, list) ==
    /\ Len(ps) = Len(list)
    /\ \A i \in 1..Len(list) :
          /\ ps[i].name = list[i].name
          /\ ps[i].type = list[i].type
          /\ ps[i].pages = list[i].pages
          /\ ps[i].size = list[i].size
          /\ ps[i].uploadedAt = NewDate(list[i].uploaded_at)

\* C22: whenever a load or refresh fetch succeeds the visible collection
\* becomes exactly the mapped list of that fetch's answer, whatever it was
\* before (local deletions included) and whatever other fetches are in
\* flight: the fetch that completes last determines the collection, and a
\* fetch answered before a deletion brings the deleted document back.
C22_SuccessfulFetchReplaces ==
    [][\A f \in InFlight(policyFetches) :
          (loadPoliciesResolve(f) \/ refreshPoliciesResolve(f))
            => /\ IsMappedList(uploadedPolicies', f.resp.policies)
               /\ localStorage' = StringifyPolicies(uploadedPolicies')
               /\ (HasName(f.resp.policies, "a.pdf") /\ "a.pdf" \in deletedNames)
                     => HasName(uploadedPolicies', "a.pdf")]_vars

\* a.pdf was deleted here and at the gateway, yet it is shown again: a
\* fetch answered before the deletion has completed, while a second fetch,
\* answered after it, is still in flight.
C22_Witness ==
    /\ "a.pdf" \in deletedNames
    /\ ~HasName(serverPolicies, "a.pdf")
    /\ HasName(uploadedPolicies, "a.pdf")
    /\ deleteCalls = EmptyBag
    /\ \E f \in InFlight(policyFetches) :
          f.resp.st = "ok" /\ ~HasName(f.resp.policies, "a.pdf")

\* Two list calls are in flight at once with different answers, one from
\* before the deletion of a.pdf and one from after it.
C22_TwoInFlight ==
    /\ BagCardinality(policyFetches) = 2
    /\ \E f, g \in InFlight(policyFetches) :
          /\ f.resp.st = "ok" /\ HasName(f.resp.policies, "a.pdf")
          /\ g.resp.st = "ok" /\ ~HasName(g.resp.policies, "a.pdf")

-----------------------------------------------------------------------------
(* Properties of overlapping sends and clears *)

\* The step resets the conversation while a call is outstanding.
ClearsWhileOutstanding ==
    /\ chatCalls # EmptyBag
    /\ Len(chatHistory) > 1
    /\ chatHistory' = <<Greeting>>

\* C23: a send whose call is outstanding when clear() runs is not
\* cancelled: the clear leaves the call in flight, with the session id it
\* was issued with, and when a call settles exactly one assistant message
\* is appended to the conversation as it then is, also when the call
\* carries another session id than the current one.
C23_ClearDoesNotCancel ==
    [][/\ ClearsWhileOutstanding => chatCalls' = chatCalls
       /\ \A c \in InFlight(chatCalls), reply \in ChatReplies :
             handleSendMessageSettle(c, reply)
               => /\ Len(chatHistory') = Len(chatHistory) + 1
                  /\ IsPrefix(chatHistory, chatHistory')
                  /\ LastMessage(chatHistory').role = "assistant"
                  /\ chatCalls' = BagRemove(chatCalls, c)
                  /\ sessionId' = sessionId]_vars

\* The greeting is followed by an assistant message with no user message:
\* the call of a send made before the clear has settled after it.
C23_Witness ==
    /\ Len(chatHistory) = 2
    /\ chatHistory[1] = Greeting
    /\ chatHistory[2].role = "assistant"
    /\ chatCalls = EmptyBag

\* The conversation was cleared at a later reading of the clock, and the
\* call still in flight carries the session id from before the clear.
C23_PreClearCall ==
    /\ chatHistory = <<Greeting>>
    /\ \E c \in InFlight(chatCalls) :
          /\ c.sessionId # sessionId
          /\ c.request.form.session_id = c.sessionId
          /\ c.sessionId.t < sessionId.t

\* C24: a send issued while another is pending is accepted: its user
\* message is appended at once, behind the earlier one, and its call is
\* issued; each assistant message is appended when its call settles, so
\* the assistant messages stand in settling order, whatever the order of
\* submission.
C24_OverlappingSends ==
    [][/\ \A m \in Messages :
             (handleSendMessage(m) /\ sessionId # NoSession /\ chatCalls # EmptyBag)
               => /\ chatHistory' =
                        Append(chatHistory, [role |-> "user", content |-> Str(m)])
                  /\ BagCardinality(chatCalls') = BagCardinality(chatCalls) + 1
       /\ \A c \in InFlight(chatCalls), reply \in ChatReplies :
             handleSendMessageSettle(c, reply)
               => /\ chatHistory' =
                        Append(chatHistory, AssistantMessage(ChatOutcome(c.route, reply)))
                  /\ chatCalls' = BagRemove(chatCalls, c)]_vars

\* Two sends overlapped and the second was answered first: both user
\* messages stand in submission order, one assistant message follows, and
\* the call still in flight is that of the first message.
C24_Witness ==
    /\ Len(chatHistory) = 4
    /\ chatHistory[2] = [role |-> "user", content |-> Str("What is the leave policy?")]
    /\ chatHistory[3] = [role |-> "user", content |-> Str("Who approves it?")]
    /\ chatHistory[4].role = "assistant"
    /\ BagCardinality(chatCalls) = 1
    /\ \A c \in InFlight(chatCalls) : c.query = "What is the leave policy?"

-----------------------------------------------------------------------------
(* Properties of the refresh scheduled by an upload *)

\* A refresh call started by the timer of an upload of n is in flight.
RefreshOf(n, fetches) ==
    {f \in InFlight(fetches) : f.kind = "refresh" /\ f.policy = n}

\* C25: every recorded upload is followed by exactly one refresh attempt:
\* recording an upload sets one timer, a timer goes only by expiring, which
\* starts one refresh call (no delete, clear all or clear of the chat takes
\* a timer away), and every timer that is set expires in the end.
C25_UploadIsFollowedByRefresh ==
    /\ [][\A n \in Names :
             /\ (\E c \in InFlight(uploadCalls) : c = n /\ handleUploadClickResolve(n))
                   => CopiesIn(n, refreshTimers') = CopiesIn(n, refreshTimers) + 1
             /\ CopiesIn(n, refreshTimers') < CopiesIn(n, refreshTimers)
                   => /\ CopiesIn(n, refreshTimers') = CopiesIn(n, refreshTimers) - 1
                      /\ policyFetches' = BagAdd(policyFetches, Fetch("refresh", n, Pending))]_vars
    /\ \A n \in Names :
          (CopiesIn(n, refreshTimers) > 0) ~> (RefreshOf(n, policyFetches) # {})

\* The refresh of an upload of a.pdf has started although a.pdf was
\* deleted after the upload was recorded.
C25_Witness ==
    /\ "a.pdf" \in deletedNames
    /\ ~HasName(uploadedPolicies, "a.pdf")
    /\ RefreshOf("a.pdf", policyFetches) # {}
    /\ refreshTimers = EmptyBag

-----------------------------------------------------------------------------
(* Properties of clear all *)

ClearIssued == clearCalls' > clearCalls

-----------------------------------------------------------------------------
(* Properties of the gateway service functions *)

\* The body is a JSON object with a detail string that is not empty.
HasDetail(reply) ==
    /\ reply.json
    /\ reply.body.ty = "object"
    /\ "detail" \in DOMAIN reply.body
    /\ reply.body.detail.ty = "string"
    /\ reply.body.detail.s # ""

\* The message C27 states for a reply with an error status.
StatedMessage(op, reply) ==
    IF ~reply.json THEN DefaultFailureText(op)
    ELSE IF HasDetail(reply) THEN reply.body.detail.s
    ELSE UnknownErrorText(op)

StatusReplies == {reply \in AllReplies : reply.net}

\* C27: for every gateway operation an error status makes the call reject
\* with the body's detail when the body is JSON with a detail that is not
\* empty, with the operation's default text when the body is not JSON, and
\* with the unknown-error text when the detail is missing or empty; a
\* success status does not reject when the body is JSON.  The chat calls
\* show the message in the apology they append.
C27_StatusErrorMessage ==
    [][/\ \A op \in Operations, reply \in StatusReplies :
             IF reply.ok
               THEN reply.json => ServiceOutcome(op, reply) = Resolved(reply.body)
               ELSE ServiceOutcome(op, reply) = Rejected(StatedMessage(op, reply))
       /\ \A c \in InFlight(chatCalls), reply \in StatusReplies :
             (handleSendMessageSettle(c, reply) /\ ~reply.ok)
               => Contains(LastMessage(chatHistory').content.s, StatedMessage(c.route, reply))]_vars

-----------------------------------------------------------------------------
(* Frame between the Conversation Session and the Document Registry *)

\* A step of send (issue or settling), clear or the route switch.
ConversationStep ==
    \/ \E m \in Messages : handleSendMessage(m)
    \/ \E c \in InFlight(chatCalls), reply \in AppReplies : handleSendMessageSettle(c, reply)
    \/ clearChat
    \/ \E enabled \in BOOLEAN : setUseWebhook(enabled)

\* A step of load, refresh, upload, delete or clearAll.
DocumentStep ==
    \/ Mount
    \/ \E f \in InFlight(policyFetches) : loadPoliciesResolve(f) \/ loadPoliciesReject(f)
    \/ refreshPolicies
    \/ \E f \in InFlight(policyFetches) : refreshPoliciesResolve(f) \/ refreshPoliciesReject(f)
    \/ \E n \in Names : \/ RefreshTimerFires(n)
                         \/ handleUploadClick(n)
                         \/ handleUploadClickResolve(n)
                         \/ handleUploadClickReject(n)
                         \/ handleDeletePolicy(n)
                         \/ handleDeletePolicyResolve(n)
                         \/ handleDeletePolicyReject(n)
    \/ clearAllPolicies
    \/ clearAllPoliciesResolve
    \/ clearAllPoliciesReject

\* C28: send, clear and the route switch never change the document
\* collection or its mirror; load, refresh, upload, delete and clearAll
\* never change the message sequence, the pending flag or the route; and
\* the mirror is written by document operations only.
C28_ConversationDocumentFrame ==
    [][/\ ConversationStep => UNCHANGED registryVars
       /\ DocumentStep => UNCHANGED <<chatHistory, isLoading, useWebhook>>
       /\ (localStorage' # localStorage \/ uploadedPolicies' # uploadedPolicies)
             => DocumentStep]_vars

\* A document is recorded and mirrored while a send on the webhook route is
\* outstanding.
C28_Witness ==
    /\ Len(uploadedPolicies) >= 1
    /\ localStorage = SavedItem(uploadedPolicies)
    /\ Len(chatHistory) = 2
    /\ isLoading
    /\ useWebhook
    /\ chatCalls # EmptyBag

-----------------------------------------------------------------------------
(* The pending flag *)

\* C29 as stated: the pending flag is true in every state in which a chat
\* call is outstanding and false in every state in which none is, also
\* when two sends overlap and the first settles before the second.
C29_PendingIffOutstanding == isLoading <=> (chatCalls # EmptyBag)

\* The step settles a chat call.
SendSettles ==
    \E c \in InFlight(chatCalls), reply \in ChatReplies : handleSendMessageSettle(c, reply)

\* C29, amended: the pending flag is set by every accepted send, cleared by
\* every settling of a send, whether or not another call is still
\* outstanding, and changed by nothing else; it is false in every state in
\* which no call is outstanding.
C29_SetOnSendClearedOnSettle ==
    /\ [](isLoading => chatCalls # EmptyBag)
    /\ [][/\ SendAccepted => isLoading'
          /\ SendSettles => ~isLoading'
          /\ isLoading' # isLoading => (SendAccepted \/ SendSettles)]_vars

\* Two sends overlapped and one of them settled: the other call is still
\* outstanding and the pending flag is false.
C29_Witness ==
    /\ ~isLoading
    /\ BagCardinality(chatCalls) = 1
    /\ RoleCount("user") = 2
    /\ RoleCount("assistant") = 2

-----------------------------------------------------------------------------
(* Sends issued through the chat view *)

\* Texts typed in the input field: empty, blank, padded and plain ones.
Inputs == {"", " ", "  ", "Any leave?", " Any leave? ", "Who approves it? "}

ViewNext ==
    \/ Mount
    \/ \E input \in Inputs : handleSubmit(input)
    \/ \E c \in InFlight(chatCalls), reply \in ChatReplies : handleSendMessageSettle(c, reply)
    \/ clearChat
    \/ \E enabled \in BOOLEAN : setUseWebhook(enabled)
    \/ \E tab \in {"upload", "chat"} : setActiveTab(tab)
    \/ Tick

\* The Conversation Session driven by the chat view alone.
SpecView == InitEmpty /\ [][ViewNext]_vars

\* C30: through the chat view's submit handler a send is issued only when
\* the trimmed input is not empty and the pending flag is false, and the
\* text sent is the trimmed input; so at most one chat call is outstanding
\* at any time and no user message is empty or blank, also when the chat is
\* cleared while a call is outstanding.
C30_ViewSendsOneAtATime ==
    /\ [][\A input \in Inputs :
             handleSubmit(input)
               => /\ Trim(input) # ""
                  /\ ~isLoading
                  /\ chatHistory' = Append(chatHistory,
                         [role |-> "user", content |-> Str(Trim(input))])
                  /\ \E c \in InFlight(chatCalls') :
                         c.query = Trim(input) /\ c.request.form.query = Trim(input)]_vars
    /\ [][chatCalls' # chatCalls /\ ~SendSettles
             => \E input \in Inputs : handleSubmit(input)]_vars
    /\ [](BagCardinality(chatCalls) <= 1)
    /\ [](\A i \in 1..Len(chatHistory) :
             chatHistory[i].role = "user"
               => /\ Trim(chatHistory[i].content.s) # ""
                  /\ Trim(chatHistory[i].content.s) = chatHistory[i].content.s)

\* A padded text was sent, the chat cleared while the call was outstanding,
\* and the call then settled: the greeting and the late answer remain, and
\* a second send has been issued with its text trimmed.
C30_Witness ==
    /\ Len(chatHistory) = 3
    /\ chatHistory[1] = Greeting
    /\ chatHistory[2].role = "assistant"
    /\ chatHistory[3] = [role |-> "user", content |-> Str("Who approves it?")]
    /\ isLoading
    /\ \A c \in InFlight(chatCalls) : c.query = "Who approves it?"
    /\ BagCardinality(chatCalls) = 1

====
